---- MODULE Spec2Model ----
(***************************************************************************)
(* Verification model of the data-preparation and estimation scripts of    *)
(* the Chicago PPLTT analysis pipeline.                                    *)
(*                                                                         *)
(* Calendar dates are day numbers (integers); a Timedelta is a difference  *)
(* of day numbers.  Each script is a sequential program; its position is   *)
(* held in a program counter variable.                                     *)
(***************************************************************************)
EXTENDS Integers, Sequences, FiniteSets, TLC

VARIABLES
    \* ---- code/data_prep/panelize.py
    pc,                 \* position of panelize.main
    caller,             \* who called generate_windows: "main" or "none"
    gw_start,           \* generate_windows: argument start
    gw_end,             \* generate_windows: argument end
    gw_days,            \* generate_windows: argument window_days
    windows,            \* generate_windows: the list being built / returned
    current,            \* generate_windows: loop variable
    card_info,          \* chatgpt_card_info parquet: cardid -> row
    cardid_to_linkid,   \* main: dict(zip(cardid, cardlinkid)) of the kept cards
    all_cardlinkids,    \* main: set of cardlinkids of the kept cards
    activity,           \* activity_dates_{2023,2024}.parquet rows
    panel_members,      \* main: running intersection
    win_i,              \* main: index of the window being processed
    saved_panel,        \* panel_cardlinkids.parquet (written at the end)
    \* ---- code/data_prep/compute_monthly_zip3.py
    zip_pc,             \* position in compute_all_fast
    tv,                 \* address rows of one cardid, in file order
    zip_result,         \* rows (year_month, zip3) returned for the cardid
    \* ---- chicago_synth_control.py / chicago_did.py (synthetic control)
    sc_pc,              \* position in main / run_synth_control
    sc_script,          \* which of the two scripts runs
    valid_donors,       \* number of donors with complete pre-period data
    weights,            \* result.x, in units of 1/WeightUnits
    top_donors,         \* weight_df['zip3'] after the > 0.01 filter
    top_weights,        \* weight_df['weight'] after the > 0.01 filter
    synth_weights,      \* the weights multiplied with the donor series
    \* ---- code/analysis/monitor_placebo.py
    mp_pc,              \* position of main
    results,            \* parse_log(): list of placebo units
    chi_pre,            \* Chicago's pre-RMSPE
    chi_ratio,          \* Chicago's post/pre RMSPE ratio
    mult_i,             \* index into [2, 5, 10, None]
    printed,            \* the rows of the p-value table printed so far
    \* ---- donor selection (three scripts)
    dn_pc,              \* position of main
    dn_script,          \* which script runs
    counts,             \* early-window size metric per zip3 (groupby result)
    chicago_size,       \* size metric of the treated ZIP3
    donor_zips,         \* donor_zips / control_zips
    \* ---- load_data.py / load_chatgpt_data.py: load_transactions
    ld_pc,              \* position in load_transactions
    amount_filter,      \* argument amount_filter
    use_top_merchants,  \* argument use_top_merchants
    use_panel,          \* argument use_panel
    top_n,              \* TOP_N_MERCHANTS in force
    trans_files,        \* rows of the chatgpt_transactions_{year} files
    panel_file,         \* panel_cardlinkids.parquet: {} if missing, else {content}
    ld_card_info,       \* rows of the card-info parquet the module reads
    PANEL_CARDIDS_CACHE, \* module global: {} is None, else {the cached set}
    TOP_MERCHANTS_CACHE, \* module global: {} is None, else {the cached list}
    trans,              \* the local dataframe trans
    \* ---- run_analysis.py
    ra_pc,              \* position of main: the step about to run or running
    quick,              \* '--quick' in sys.argv
    PROJECT_DIR,        \* directory that holds the scripts
    outdir,             \* main: get_output_dir()
    fs,                 \* placebo result files on disk: <<directory, name>>
    running,            \* a subprocess started by run() has not returned yet
    started,            \* the descriptions of the commands started, in order
    finished,           \* <<description, returncode>> of the commands that ended
    ra_out,             \* status lines printed by main
    placebo_reads,      \* the directories the placebo plot helpers read from
    \* ---- chicago_did.py / archive/chicago_did_v1.py: week-zip3 panel
    dd_pc,              \* position of main
    dd_script,          \* which of the two scripts runs
    dd_trans,           \* the dataframe trans
    df                  \* the week-zip3 panel

panelVars == <<pc, caller, gw_start, gw_end, gw_days, windows, current, card_info,
               cardid_to_linkid, all_cardlinkids, activity, panel_members,
               win_i, saved_panel>>

zipVars == <<zip_pc, tv, zip_result>>

synthVars == <<sc_pc, sc_script, valid_donors, weights, top_donors, top_weights,
               synth_weights>>

placeboVars == <<mp_pc, results, chi_pre, chi_ratio, mult_i, printed>>

donorVars == <<dn_pc, dn_script, counts, chicago_size, donor_zips>>

loadVars == <<ld_pc, amount_filter, use_top_merchants, use_panel, top_n,
              trans_files, panel_file, ld_card_info, PANEL_CARDIDS_CACHE,
              TOP_MERCHANTS_CACHE, trans>>

pipelineVars == <<ra_pc, quick, PROJECT_DIR, outdir, fs, running, started, finished,
                  ra_out, placebo_reads>>

didVars == <<dd_pc, dd_script, dd_trans, df>>

vars == <<panelVars, zipVars, synthVars, placeboVars, donorVars, loadVars,
          pipelineVars, didVars>>

notPanel == <<zipVars, synthVars, placeboVars, donorVars, loadVars, pipelineVars,
              didVars>>

notZip == <<panelVars, synthVars, placeboVars, donorVars, loadVars, pipelineVars,
            didVars>>

notSynth == <<panelVars, zipVars, placeboVars, donorVars, loadVars, pipelineVars,
              didVars>>

notPlacebo == <<panelVars, zipVars, synthVars, donorVars, loadVars, pipelineVars,
                didVars>>

notDonor == <<panelVars, zipVars, synthVars, placeboVars, loadVars, pipelineVars,
              didVars>>

notLoad == <<panelVars, zipVars, synthVars, placeboVars, donorVars, pipelineVars,
             didVars>>

notPipeline == <<panelVars, zipVars, synthVars, placeboVars, donorVars, loadVars,
                 didVars>>

notDid == <<panelVars, zipVars, synthVars, placeboVars, donorVars, loadVars,
            pipelineVars>>

Range(s) == {s[i] : i \in DOMAIN s}

(***************************************************************************)
(* Bounds of the model.                                                    *)
(***************************************************************************)
MaxStart == 1
MaxDay == 12
MaxWindowDays == 4
MaxActivity == 2
ScaledStudyEnd == 5
ScaledWindowDays == 2

(***************************************************************************)
(* panelize.py: study period.  STUDY_START is day 0; STUDY_END is the      *)
(* number of days from 2023-03-01 to 2024-11-30.                           *)
(***************************************************************************)
STUDY_START == 0
STUDY_END == 640
WINDOW_DAYS == 70

(***************************************************************************)
(* Small universes for the parquet inputs.                                 *)
(***************************************************************************)
CardIds == {"c1", "c2"}
LinkIds == {"L1", "L2"}
SourceGroups == {1, 2}
CardTypes == {"DEBIT", "CREDIT"}
Files == {"activity_dates_2023", "activity_dates_2024"}
CardRows == [cardlinkid : LinkIds, source_group : SourceGroups, cardtype : CardTypes]
EmptyMap == [c \in {} |-> "L1"]

gwFrame == <<caller, gw_start, gw_end, gw_days, card_info, cardid_to_linkid,
                 all_cardlinkids, activity, panel_members, win_i, saved_panel>>

(***************************************************************************)
(* generate_windows(start, end, window_days): one iteration of the while   *)
(* loop per step.  pc = "generate_windows" while the function runs and     *)
(* pc = "returned" once it has returned `windows`.                         *)
(***************************************************************************)
WindowEnd(cur) == cur + gw_days

Remaining(window_end) == gw_end - window_end

TooShortNever(remaining) == FALSE

TooShort(remaining) == remaining < gw_days

NextCurrentSkipsDay(window_end) == window_end + 1

NextCurrent(window_end) == window_end

\* while current < end: condition false, fall through to `return windows`
GwLoopExit ==
    /\ pc = "generate_windows"
    /\ ~(current < gw_end)
    /\ pc' = "returned"
    /\ UNCHANGED <<windows, current, gwFrame, notPanel>>

\* if window_end >= end: windows.append((current, end)); break
GwLastWindow ==
    /\ pc = "generate_windows"
    /\ current < gw_end
    /\ WindowEnd(current) >= gw_end
    /\ windows' = Append(windows, <<current, gw_end>>)
    /\ pc' = "returned"
    /\ UNCHANGED <<current, gwFrame, notPanel>>

\* remaining < window_days: windows.append((current, end)); break
GwMerge ==
    /\ pc = "generate_windows"
    /\ current < gw_end
    /\ WindowEnd(current) < gw_end
    /\ TooShort(Remaining(WindowEnd(current)))
    /\ windows' = Append(windows, <<current, gw_end>>)
    /\ pc' = "returned"
    /\ UNCHANGED <<current, gwFrame, notPanel>>

\* else: windows.append((current, window_end)); current = window_end
GwAdvance ==
    /\ pc = "generate_windows"
    /\ current < gw_end
    /\ WindowEnd(current) < gw_end
    /\ ~TooShort(Remaining(WindowEnd(current)))
    /\ windows' = Append(windows, <<current, WindowEnd(current)>>)
    /\ current' = NextCurrent(WindowEnd(current))
    /\ UNCHANGED <<pc, gwFrame, notPanel>>

generate_windows == GwLoopExit \/ GwLastWindow \/ GwMerge \/ GwAdvance

(***************************************************************************)
(* load_card_info: the cardids whose row is kept.                          *)
(***************************************************************************)
usa1_debit_none(row) == FALSE

usa1_debit(row) == row.source_group = 1 /\ row.cardtype = "DEBIT"

load_card_info(ci) == {c \in DOMAIN ci : ~usa1_debit(ci[c])}

(***************************************************************************)
(* get_cardlinkids_in_window: the row groups of one file are read one at a *)
(* time and their results are unioned; `rows` is the union of the file's   *)
(* row groups.                                                             *)
(***************************************************************************)
InWindowHalfOpen(trans_date, win_start, win_end) ==
    trans_date >= win_start /\ trans_date < win_end

InWindow(trans_date, win_start, win_end) ==
    trans_date >= win_start /\ trans_date <= win_end

FileRows(f) == {r \in activity : r.file = f}

get_cardlinkids_in_window(rows, map, win_start, win_end) ==
    LET valid_cardids == DOMAIN map
        chunk == {r \in rows : /\ r.cardid \in valid_cardids
                               /\ InWindow(r.trans_date, win_start, win_end)}
    IN  {map[r.cardid] : r \in chunk}

(***************************************************************************)
(* panelize.main                                                           *)
(***************************************************************************)
\* Step 1: load card info, build the dict and the set of cardlinkids;
\* Step 2 then calls generate_windows.
LoadCardInfo ==
    /\ pc = "load_card_info"
    /\ cardid_to_linkid' =
          [c \in load_card_info(card_info) |-> card_info[c].cardlinkid]
    /\ all_cardlinkids' =
          {card_info[c].cardlinkid : c \in load_card_info(card_info)}
    /\ pc' = "generate_windows"
    /\ UNCHANGED <<caller, gw_start, gw_end, gw_days, windows, current, card_info,
                   activity, panel_members, win_i, saved_panel>>
    /\ UNCHANGED notPanel

\* Step 3 start: panel_members = all_cardlinkids.copy()
StartScan ==
    /\ pc = "returned"
    /\ caller = "main"
    /\ panel_members' = all_cardlinkids
    /\ win_i' = 1
    /\ pc' = "scan"
    /\ UNCHANGED <<caller, gw_start, gw_end, gw_days, windows, current, card_info,
                   cardid_to_linkid, all_cardlinkids, activity, saved_panel>>
    /\ UNCHANGED notPanel

WindowActive(win_start, win_end) ==
    UNION {get_cardlinkids_in_window(FileRows(f), cardid_to_linkid,
                                     win_start, win_end) : f \in Files}

Intersect(members, window_active) == members \cap window_active

\* one iteration of `for i, (win_start, win_end) in enumerate(windows)`
ProcessWindow ==
    /\ pc = "scan"
    /\ win_i <= Len(windows)
    /\ panel_members' =
          Intersect(panel_members,
                    WindowActive(windows[win_i][1], windows[win_i][2]))
    /\ win_i' = win_i + 1
    /\ UNCHANGED <<pc, caller, gw_start, gw_end, gw_days, windows, current, card_info,
                   cardid_to_linkid, all_cardlinkids, activity, saved_panel>>
    /\ UNCHANGED notPanel

\* Step 4: save panel members
SavePanel ==
    /\ pc = "scan"
    /\ win_i > Len(windows)
    /\ saved_panel' = panel_members
    /\ pc' = "done"
    /\ UNCHANGED <<caller, gw_start, gw_end, gw_days, windows, current, card_info,
                   cardid_to_linkid, all_cardlinkids, activity, panel_members,
                   win_i>>
    /\ UNCHANGED notPanel

(***************************************************************************)
(* code/data_prep/compute_monthly_zip3.py                                  *)
(*                                                                         *)
(* tv holds the address rows of one cardid (every step of the script       *)
(* filters or groups by cardid).  The calendar is scaled: month k has      *)
(* MonthLengths[k] days, the first month starts on day 0.                  *)
(***************************************************************************)
MonthLengths == <<2, 3>>

RECURSIVE MonthStart(_)
MonthStart(k) == IF k = 1 THEN 0 ELSE MonthStart(k - 1) + MonthLengths[k - 1]

\* m + pd.offsets.MonthEnd(1): the last day of the month that starts on m
MonthEndOf(k) == MonthStart(k) + MonthLengths[k] - 1

\* get_months(): pd.date_range(..., freq='MS'); strftime('%Y-%m') names a
\* month by its index
get_months == [k \in 1..Len(MonthLengths) |-> k]

Max2(a, b) == IF a >= b THEN a ELSE b

Min2(a, b) == IF a <= b THEN a ELSE b

\* astype(str) of an integer zip: its decimal digits
RECURSIVE astype_str(_)
astype_str(n) == IF n < 10 THEN <<n>> ELSE astype_str(n \div 10) \o <<n % 10>>

\* order of str keys in a sorted groupby
RECURSIVE StrLess(_, _)
StrLess(a, b) ==
    IF a = <<>> THEN b # <<>>
    ELSE IF b = <<>> THEN FALSE
    ELSE IF a[1] # b[1] THEN a[1] < b[1]
    ELSE StrLess(Tail(a), Tail(b))

\* single_data.merge(months_df, on='_key'): every row x every month
Cross(rows, months) ==
    [k \in 1..(Len(rows) * Len(months)) |->
        <<rows[((k - 1) \div Len(months)) + 1], months[((k - 1) % Len(months)) + 1]>>]

SingleKeep(pair) ==
    /\ MonthStart(pair[2]) >= pair[1].valid_begin
    /\ MonthStart(pair[2]) <= pair[1].valid_end

process_single_row_cardids(rows) ==
    LET kept == SelectSeq(Cross(rows, get_months), SingleKeep)
    IN  [k \in 1..Len(kept) |->
            [year_month |-> kept[k][2], zip3 |-> astype_str(kept[k][1].zip)]]

\* if row['valid_begin'] <= m_end and row['valid_end'] >= m
Covers(pair) ==
    /\ pair[1].valid_begin <= MonthEndOf(pair[2])
    /\ pair[1].valid_end >= MonthStart(pair[2])

\* days = (end - start).days + 1
RowDays(row, m) ==
    LET start == Max2(row.valid_begin, MonthStart(m))
        end == Min2(row.valid_end, MonthEndOf(m))
    IN  (end - start) + 1

\* the `records` list built by the nested loops
MultiRecords(rows) ==
    LET kept == SelectSeq(Cross(rows, get_months), Covers)
    IN  [k \in 1..Len(kept) |->
            [year_month |-> kept[k][2], zip3 |-> astype_str(kept[k][1].zip),
             days |-> RowDays(kept[k][1], kept[k][2])]]

\* groupby([..., 'year_month', 'zip3'])['days'].sum()
RECURSIVE AggDays(_, _, _)
AggDays(recs, ym, z) ==
    IF recs = <<>> THEN 0
    ELSE (IF recs[1].year_month = ym /\ recs[1].zip3 = z THEN recs[1].days ELSE 0)
         + AggDays(Tail(recs), ym, z)

AggZips(recs, ym) == {r.zip3 : r \in {x \in Range(recs) : x.year_month = ym}}

LeastDays(S) == CHOOSE x \in S : \A y \in S : x <= y

BestDays(S) == CHOOSE x \in S : \A y \in S : x >= y

\* groupby(['cardid', 'year_month'])['days'].idxmax(): the first row, in the
\* sorted order of the keys, that holds the largest sum
idxmax(recs, ym) ==
    LET zs == AggZips(recs, ym)
        best == BestDays({AggDays(recs, ym, z) : z \in zs})
        top == {z \in zs : AggDays(recs, ym, z) = best}
    IN  CHOOSE z \in top : \A y \in top : y = z \/ StrLess(z, y)

RECURSIVE Modal(_, _)
Modal(recs, k) ==
    IF k > Len(get_months) THEN <<>>
    ELSE (IF AggZips(recs, get_months[k]) = {} THEN <<>>
          ELSE <<[year_month |-> get_months[k], zip3 |-> idxmax(recs, get_months[k])]>>)
         \o Modal(recs, k + 1)

process_multi_row_cardids(rows) == Modal(MultiRecords(rows), 1)

\* compute_all_fast: counts = tv.groupby('cardid').size(); the cardid goes to
\* single_cardids (counts == 1) or to multi_cardids (counts > 1)
SplitByRowCount ==
    /\ zip_pc = "split"
    /\ zip_pc' = IF Len(tv) = 1 THEN "single" ELSE "multi"
    /\ UNCHANGED <<tv, zip_result, notZip>>

ProcessSingleRow ==
    /\ zip_pc = "single"
    /\ zip_result' = process_single_row_cardids(tv)
    /\ zip_pc' = "done_single"
    /\ UNCHANGED <<tv, notZip>>

ProcessMultiRow ==
    /\ zip_pc = "multi"
    /\ zip_result' = process_multi_row_cardids(tv)
    /\ zip_pc' = "done_multi"
    /\ UNCHANGED <<tv, notZip>>

(***************************************************************************)
(* Synthetic control weights: chicago_synth_control.main and               *)
(* chicago_did.run_synth_control.  A weight w is held as the integer       *)
(* w * WeightUnits.  scipy's minimize is not modelled numerically: its     *)
(* result is any point of the feasible set (bounds (0, 1) for every        *)
(* weight, equality constraint sum(w) - 1 = 0).                            *)
(***************************************************************************)
WeightUnits == 100
MaxDonors == 3

RECURSIVE FeasibleWeights(_, _)
FeasibleWeights(n, total) ==
    IF n = 1 THEN {<<total>>}
    ELSE UNION {{<<a>> \o v : v \in FeasibleWeights(n - 1, total - a)} : a \in 0..total}

\* weight_df[weight_df['weight'] > 0.01]
AboveOnePercent(w) == 100 * w > WeightUnits

Minimize ==
    /\ sc_pc = "fit"
    /\ \E w \in FeasibleWeights(valid_donors, WeightUnits) : weights' = w
    /\ sc_pc' = "weights"
    /\ UNCHANGED <<sc_script, valid_donors, top_donors, top_weights, synth_weights,
                   notSynth>>

\* weight_df = weight_df[weight_df['weight'] > 0.01]; top_donors, top_weights
TopDonors ==
    /\ sc_pc = "weights"
    /\ top_donors' = {d \in 1..valid_donors : AboveOnePercent(weights[d])}
    /\ top_weights' = [d \in {x \in 1..valid_donors : AboveOnePercent(weights[x])}
                          |-> weights[d]]
    /\ sc_pc' = "synth"
    /\ UNCHANGED <<sc_script, valid_donors, weights, synth_weights,
                   notSynth>>

\* synth_log = full_data[top_donors].values @ top_weights
ComputeSynthetic ==
    /\ sc_pc = "synth"
    /\ synth_weights' = top_weights
    /\ sc_pc' = "done"
    /\ UNCHANGED <<sc_script, valid_donors, weights, top_donors, top_weights,
                   notSynth>>

(***************************************************************************)
(* code/analysis/monitor_placebo.py: main.  RMSPE values and ratios are    *)
(* held as integers of a common unit.                                      *)
(***************************************************************************)
MaxUnits == 2
PreValues == {1, 3, 7, 11}
RatioValues == {0, 1, 2}
ChicagoPreValues == {0, 1, 2}

\* for mult in [2, 5, 10, None]; None is held as NoMult
NoMult == 0
Mults == <<2, 5, 10, NoMult>>

\* good = results (mult is None) or [r for r in results if r['pre_rmspe'] < threshold]
GoodUnits(mult) ==
    IF mult = NoMult THEN results
    ELSE SelectSeq(results, LAMBDA r : r.pre_rmspe < chi_pre * mult)

\* n_good = len(good) + 1  # +1 for Chicago
n_good(good) == Len(good) + 1

n_extreme_without_chicago(good) ==
    Len(SelectSeq(good, LAMBDA r : r.ratio >= chi_ratio))

\* n_extreme = sum(1 for r in good if r['ratio'] >= chi_ratio) + 1
n_extreme(good) == Len(SelectSeq(good, LAMBDA r : r.ratio >= chi_ratio)) + 1

\* f"{pval:.3f}": pval = num / den rounded to thousandths, ties to even
Format3f(num, den) ==
    LET q == (1000 * num) \div den
        r == (1000 * num) % den
    IN  IF 2 * r > den \/ (2 * r = den /\ q % 2 = 1) THEN q + 1 ELSE q

\* if not results: print("No completed units yet..."); return
NoCompletedUnits ==
    /\ mp_pc = "start"
    /\ results = <<>>
    /\ mp_pc' = "done"
    /\ UNCHANGED <<results, chi_pre, chi_ratio, mult_i, printed, notPlacebo>>

\* chi_pre, chi_post, chi_ratio = get_chicago_stats(); the header is printed
ChicagoStats ==
    /\ mp_pc = "start"
    /\ results # <<>>
    /\ mp_pc' = "pvalues"
    /\ UNCHANGED <<results, chi_pre, chi_ratio, mult_i, printed, notPlacebo>>

\* one iteration of the p-value loop: one printed row
PValueRow ==
    /\ mp_pc = "pvalues"
    /\ mult_i <= Len(Mults)
    /\ LET good == GoodUnits(Mults[mult_i])
       IN  printed' = Append(printed,
               [mult |-> Mults[mult_i],
                placebos |-> Len(good),
                n_extreme |-> n_extreme(good),
                pval |-> <<n_extreme(good), n_good(good)>>,
                text |-> Format3f(n_extreme(good), n_good(good))])
    /\ mult_i' = mult_i + 1
    /\ UNCHANGED <<mp_pc, results, chi_pre, chi_ratio, notPlacebo>>

\* the rest of main prints the ranking and summary statistics
PrintRanking ==
    /\ mp_pc = "pvalues"
    /\ mult_i > Len(Mults)
    /\ mp_pc' = "done"
    /\ UNCHANGED <<results, chi_pre, chi_ratio, mult_i, printed, notPlacebo>>

(***************************************************************************)
(* Donor selection: chicago_synth_control.main, chicago_did.main and       *)
(* chicago_sc_robustness.main.  A zip3 string is a sequence of characters; *)
(* counts is the groupby result (zip3 -> size metric) over the early       *)
(* window.                                                                 *)
(***************************************************************************)
TREATED_ZIP == <<"6", "0", "6">>

Scripts == {"chicago_synth_control", "chicago_did", "chicago_sc_robustness"}

\* SIZE_WINDOW in percent: 0.5 in chicago_synth_control, 0.1 in the others
SIZE_WINDOW_PCT(script) == IF script = "chicago_synth_control" THEN 50 ELSE 10

OtherZip3s == { <<"6", "0", "1">>, <<"1", "0", "0">>, <<"6", "0">>,
                <<"6", "0", "6", "0">>, <<"n", "a", "n">> }

SizeValues == {4, 5, 9, 11, 15, 16}

ChicagoSizes == {10}

IsDigit(c) == c \in {"0", "1", "2", "3", "4", "5", "6", "7", "8", "9"}

\* str.match(r'^\d{3}$')
MatchesThreeDigits(z) == Len(z) = 3 /\ \A i \in 1..Len(z) : IsDigit(z[i])

\* counts['size_metric'] >= lower, with lower = chicago_size * (1 - SIZE_WINDOW)
AtLeastLower(s, size, pct) == 100 * s >= size * (100 - pct)

\* counts['size_metric'] <= upper, with upper = chicago_size * (1 + SIZE_WINDOW)
AtMostUpper(s, size, pct) == 100 * s <= size * (100 + pct)

NotTreatedDropped(z) == TRUE

NotTreated(z) == z # TREATED_ZIP

\* counts[counts['zip3'] == TREATED_ZIP][...].values[0] with no such row
ChicagoMissing ==
    /\ dn_pc = "chicago_size"
    /\ TREATED_ZIP \notin DOMAIN counts
    /\ dn_pc' = "IndexError"
    /\ UNCHANGED <<dn_script, counts, chicago_size, donor_zips, notDonor>>

ChicagoSize ==
    /\ dn_pc = "chicago_size"
    /\ TREATED_ZIP \in DOMAIN counts
    /\ chicago_size' = counts[TREATED_ZIP]
    /\ dn_pc' = "similar"
    /\ UNCHANGED <<dn_script, counts, donor_zips, notDonor>>

\* the three filters on `similar`, then .tolist()
SelectDonors ==
    /\ dn_pc = "similar"
    /\ LET pct == SIZE_WINDOW_PCT(dn_script)
           similar1 == {z \in DOMAIN counts :
                           /\ AtLeastLower(counts[z], chicago_size, pct)
                           /\ AtMostUpper(counts[z], chicago_size, pct)}
           similar2 == {z \in similar1 : NotTreated(z)}
           similar3 == {z \in similar2 : MatchesThreeDigits(z)}
       IN  donor_zips' = similar3
    /\ dn_pc' = "done"
    /\ UNCHANGED <<dn_script, counts, chicago_size, notDonor>>

(***************************************************************************)
(* config.py and load_chatgpt_data.py: the module-level settings.  Python's *)
(* True, False and None are the strings "True", "False" and "None".  A     *)
(* path is the sequence of its components.                                  *)
(***************************************************************************)
FILTER_PLUS_RANGE == "plus_range"

FILTER_WIDE_RANGE == "wide_range"

FILTER_OUTSIDE == "outside"

OUTCOME_TRANSACTIONS == "trans"

OUTCOME_USERS == "unique_users"

TOP_N_MERCHANTS == 30

config_settings ==
    [AMOUNT_FILTER |-> FILTER_WIDE_RANGE, USE_TOP_MERCHANTS |-> "False",
     OUTCOME_VAR |-> OUTCOME_TRANSACTIONS, USE_PANEL |-> "True"]

load_chatgpt_data_settings ==
    [AMOUNT_FILTER |-> FILTER_WIDE_RANGE, USE_TOP_MERCHANTS |-> "False",
     OUTCOME_VAR |-> OUTCOME_USERS, USE_PANEL |-> "True"]

SettingsModules == {"config", "load_chatgpt_data"}

\* load_data.py and the scripts that import config see config's settings
Settings(module) ==
    IF module = "load_chatgpt_data" THEN load_chatgpt_data_settings
    ELSE config_settings

\* base: config.py line 46 is a fixed Dropbox path; load_chatgpt_data.py
\* line 51 is Path(__file__).parent / 'output'
get_output_dir(module, project_dir) ==
    LET base == IF module = "load_chatgpt_data" THEN <<project_dir, "output">>
                ELSE <<"/Users/jeffreyohl/Dropbox/LLM_PassThrough", "output">>
        outcome_dir == Settings(module).OUTCOME_VAR
        filter == Settings(module).AMOUNT_FILTER
        amount_dir == IF filter = FILTER_PLUS_RANGE THEN "20to22"
                      ELSE IF filter = FILTER_WIDE_RANGE THEN "15to25"
                      ELSE IF filter = FILTER_OUTSIDE THEN "outside20to22"
                      ELSE "all"
        merchant_dir == IF Settings(module).USE_TOP_MERCHANTS = "True"
                        THEN "top30" ELSE "all_merchants"
    IN  base \o <<outcome_dir, amount_dir, merchant_dir>>

\* code/robustness/helpers/plot_placebo_spaghetti.py: DATA_DIR
spaghetti_DATA_DIR ==
    <<"/Users/jeffreyohl/Dropbox/LLM_PassThrough", "output", "unique_users",
      "15to25", "all_merchants">>

(***************************************************************************)
(* load_data.py: load_transactions.  load_chatgpt_data.load_transactions   *)
(* is the same code over its own settings, which have the same values.     *)
(* Amounts are numeric, so pd.to_numeric leaves them as they are.          *)
(***************************************************************************)
MaxTrans == 1

ScaledTopN == 1

Amounts == {10, 20, 23}

MerchIds == {"m1", "m2"}

ServiceNames == {"ChatGPT", "Claude"}

TransRows ==
    [cardid : CardIds, trans_amount : Amounts, merchid : MerchIds,
     service : ServiceNames]

CardKinds ==
    {[cardlinkid |-> "L1", source_group |-> 1, cardtype |-> "DEBIT"],
     [cardlinkid |-> "L1", source_group |-> 1, cardtype |-> "CREDIT"],
     [cardlinkid |-> "L2", source_group |-> 2, cardtype |-> "DEBIT"]}

AmountFilterArgs ==
    {"None", FILTER_PLUS_RANGE, FILTER_WIDE_RANGE, FILTER_OUTSIDE, "all",
     "subscriptions", "api"}

\* str.lower() on the service names that occur
lower(s) ==
    CASE s = "ChatGPT" -> "chatgpt"
      [] s = "Claude" -> "claude"
      [] OTHER -> s

\* default of the parameter services
services == {"chatgpt", "openai"}

panel_cards_all(ci, panel_linkids) == ci

\* card_info[card_info['cardlinkid'].isin(panel_linkids)]
panel_cards(ci, panel_linkids) == {r \in ci : r.cardlinkid \in panel_linkids}

\* _get_panel_cardids: the cached set, or the cardids of the cards that are
\* not USA1 debit and whose cardlinkid is in the panel file; path is the
\* content of panel_cardlinkids.parquet
get_panel_cardids(cache, path, ci) ==
    IF cache # {} THEN CHOOSE cached \in cache : TRUE
    ELSE LET panel_linkids == CHOOSE content \in path : TRUE
             kept == {r \in ci : ~(r.source_group = 1 /\ r.cardtype = "DEBIT")}
         IN  {r.cardid : r \in panel_cards(kept, panel_linkids)}

\* value_counts().head(n).index: n most frequent merchids; the order among
\* equal counts is not fixed by pandas, so each admissible choice is possible
TopMerchantChoices(rows, n) ==
    LET present == {rows[i].merchid : i \in DOMAIN rows}
        MerchCount(m) == Cardinality({i \in DOMAIN rows : rows[i].merchid = m})
    IN  {top \in SUBSET present :
            /\ Cardinality(top) = Min2(n, Cardinality(present))
            /\ \A a \in top : \A b \in present \ top :
                  MerchCount(a) >= MerchCount(b)}

\* _get_top_merchants: the cached list, or one computed from trans_raw
get_top_merchants(cache, trans_raw, n) ==
    IF cache # {} THEN {cache}
    ELSE {{top} : top \in TopMerchantChoices(trans_raw, n)}

\* the boolean mask of lines 110-120 for one trans_amount
amount_mask(a, filter) ==
    IF filter = FILTER_PLUS_RANGE THEN a >= 20 /\ a <= 22
    ELSE IF filter = FILTER_WIDE_RANGE THEN a >= 15 /\ a <= 25
    ELSE IF filter = FILTER_OUTSIDE THEN a < 20 \/ a > 22
    ELSE TRUE

\* lines 70-75: None arguments take the module-level settings
ArgDefaults ==
    /\ ld_pc = "call"
    /\ amount_filter' = IF amount_filter = "None"
                        THEN Settings("load_data").AMOUNT_FILTER ELSE amount_filter
    /\ use_top_merchants' = IF use_top_merchants = "None"
                            THEN Settings("load_data").USE_TOP_MERCHANTS
                            ELSE use_top_merchants
    /\ use_panel' = IF use_panel = "None"
                    THEN Settings("load_data").USE_PANEL ELSE use_panel
    /\ ld_pc' = "read"
    /\ UNCHANGED <<top_n, trans_files, panel_file, ld_card_info,
                   PANEL_CARDIDS_CACHE, TOP_MERCHANTS_CACHE, trans, notLoad>>

\* lines 77-88: concatenate the yearly files, keep the rows of the services
ReadTransactions ==
    /\ ld_pc = "read"
    /\ trans' = SelectSeq(trans_files, LAMBDA r : lower(r.service) \in services)
    /\ ld_pc' = "panel"
    /\ UNCHANGED <<amount_filter, use_top_merchants, use_panel, top_n, trans_files,
                   panel_file, ld_card_info, PANEL_CARDIDS_CACHE,
                   TOP_MERCHANTS_CACHE, notLoad>>

\* lines 40-41: raise FileNotFoundError
PanelFileMissing ==
    /\ ld_pc = "panel"
    /\ use_panel = "True"
    /\ PANEL_CARDIDS_CACHE = {} /\ panel_file = {}
    /\ ld_pc' = "FileNotFoundError"
    /\ UNCHANGED <<amount_filter, use_top_merchants, use_panel, top_n, trans_files,
                   panel_file, ld_card_info, PANEL_CARDIDS_CACHE,
                   TOP_MERCHANTS_CACHE, trans, notLoad>>

\* lines 91-96: trans[trans['cardid'].isin(panel_cardids)]
PanelFilter ==
    /\ ld_pc = "panel"
    /\ use_panel = "True"
    /\ PANEL_CARDIDS_CACHE # {} \/ panel_file # {}
    /\ LET panel_cardids ==
               get_panel_cardids(PANEL_CARDIDS_CACHE, panel_file, ld_card_info)
       IN  /\ PANEL_CARDIDS_CACHE' = {panel_cardids}
           /\ trans' = SelectSeq(trans, LAMBDA r : r.cardid \in panel_cardids)
    /\ ld_pc' = "top_merchants"
    /\ UNCHANGED <<amount_filter, use_top_merchants, use_panel, top_n, trans_files,
                   panel_file, ld_card_info, TOP_MERCHANTS_CACHE, notLoad>>

\* line 91: use_panel is false
NoPanelFilter ==
    /\ ld_pc = "panel"
    /\ use_panel # "True"
    /\ ld_pc' = "top_merchants"
    /\ UNCHANGED <<amount_filter, use_top_merchants, use_panel, top_n, trans_files,
                   panel_file, ld_card_info, PANEL_CARDIDS_CACHE,
                   TOP_MERCHANTS_CACHE, trans, notLoad>>

\* lines 98-107: trans[trans['merchid'].isin(top_merchs)]
TopMerchantsFilter ==
    /\ ld_pc = "top_merchants"
    /\ use_top_merchants = "True"
    /\ \E cache \in get_top_merchants(TOP_MERCHANTS_CACHE, trans, top_n) :
          /\ TOP_MERCHANTS_CACHE' = cache
          /\ trans' = SelectSeq(trans, LAMBDA r : \E top \in cache : r.merchid \in top)
    /\ ld_pc' = "amount"
    /\ UNCHANGED <<amount_filter, use_top_merchants, use_panel, top_n, trans_files,
                   panel_file, ld_card_info, PANEL_CARDIDS_CACHE, notLoad>>

\* line 104: use_top_merchants is false
NoTopMerchantsFilter ==
    /\ ld_pc = "top_merchants"
    /\ use_top_merchants # "True"
    /\ ld_pc' = "amount"
    /\ UNCHANGED <<amount_filter, use_top_merchants, use_panel, top_n, trans_files,
                   panel_file, ld_card_info, PANEL_CARDIDS_CACHE,
                   TOP_MERCHANTS_CACHE, trans, notLoad>>

\* lines 109-122: the amount filter, then return trans
AmountFilter ==
    /\ ld_pc = "amount"
    /\ trans' = SelectSeq(trans, LAMBDA r : amount_mask(r.trans_amount, amount_filter))
    /\ ld_pc' = "returned"
    /\ UNCHANGED <<amount_filter, use_top_merchants, use_panel, top_n, trans_files,
                   panel_file, ld_card_info, PANEL_CARDIDS_CACHE,
                   TOP_MERCHANTS_CACHE, notLoad>>


(***************************************************************************)
(* run_analysis.py.  run(cmd, desc) starts a subprocess and waits for it:  *)
(* one step for the start, one for the return.  The placebo result files   *)
(* are written by the Stata placebo job, which runs outside main.          *)
(***************************************************************************)
\* the desc argument of each run(cmd, desc) call
desc ==
    [export |-> "Export panel data to Stata",
     stata |-> "Run synthetic control",
     extract |-> "Extract donor weights",
     plot_sc |-> "Plot SC with event lines",
     spaghetti |-> "Plot donor spaghetti",
     tax |-> "Detect tax changes",
     vs_rest |-> "Chicago vs rest raw plot",
     placebo |-> "Placebo plots (2x)",
     macros |-> "Export LaTeX macros"]

placebo_files ==
    <<"placebo_results_topq.dta", "placebo_series_long.dta",
      "placebo_results_new.dta">>

ProjectDirs == {"/Users/jeffreyohl/Dropbox/LLM_PassThrough", "/Users/jeffreyohl/repo"}

\* the output directories the scripts name
OutputDirs(project_dir) ==
    {get_output_dir(module, project_dir) : module \in SettingsModules}
        \cup {spaghetti_DATA_DIR}

FailedNever(returncode) == FALSE

\* if result.returncode != 0
Failed(returncode) == returncode # 0

RunsStataAlways(q) == TRUE

\* if not quick
RunsStata(q) == ~q

\* placebo_results.exists()
PlaceboResultsExist == <<get_output_dir("config", PROJECT_DIR), placebo_files[1]>> \in fs

\* run(): print the header, subprocess.run(cmd, ...) is started
subprocess_start(at, d, reads) ==
    /\ ra_pc = at
    /\ ~running
    /\ running' = TRUE
    /\ started' = Append(started, d)
    /\ placebo_reads' = placebo_reads \cup reads
    /\ UNCHANGED <<ra_pc, quick, PROJECT_DIR, outdir, fs, finished, ra_out,
                   notPipeline>>

\* run(): the subprocess returns; sys.exit(1) on a non-zero return code
subprocess_exit(at, d, next) ==
    /\ ra_pc = at
    /\ running
    /\ running' = FALSE
    /\ \E returncode \in {0, 1} :
          /\ finished' = Append(finished, <<d, returncode>>)
          /\ IF Failed(returncode)
             THEN ra_pc' = "exit1" /\ ra_out' = Append(ra_out, <<"FAILED", d>>)
             ELSE ra_pc' = next /\ ra_out' = Append(ra_out, <<"DONE", d>>)
    /\ UNCHANGED <<quick, PROJECT_DIR, outdir, fs, started, placebo_reads,
                   notPipeline>>

run(at, d, next) ==
    subprocess_start(at, d, {}) \/ subprocess_exit(at, d, next)

\* lines 31-44: delete the stale placebo results of the output directory
DeleteStale ==
    /\ ra_pc = "start"
    /\ outdir' = get_output_dir("config", PROJECT_DIR)
    /\ fs' = fs \ {<<outdir', placebo_files[i]>> : i \in DOMAIN placebo_files}
    /\ LET stale == SelectSeq(placebo_files, LAMBDA f : <<outdir', f>> \in fs)
       IN  ra_out' = ra_out \o [i \in DOMAIN stale |-> <<"Deleted stale", stale[i]>>]
    /\ ra_pc' = "step1"
    /\ UNCHANGED <<quick, PROJECT_DIR, running, started, finished, placebo_reads,
                   notPipeline>>

\* line 46
Step1Export == run("step1", desc.export, "step2")

\* lines 49-50
Step2Stata == RunsStata(quick) /\ run("step2", desc.stata, "step3")

\* lines 51-52
Step2Skip ==
    /\ ra_pc = "step2"
    /\ ~RunsStata(quick)
    /\ ra_out' = Append(ra_out, <<"[--quick] Skipping Stata">>)
    /\ ra_pc' = "step3"
    /\ UNCHANGED <<quick, PROJECT_DIR, outdir, fs, running, started, finished,
                   placebo_reads, notPipeline>>

\* line 55
Step3Extract == run("step3", desc.extract, "step4a")

\* lines 58-59
Step4Figures ==
    \/ run("step4a", desc.plot_sc, "step4b")
    \/ run("step4b", desc.spaghetti, "step5a")

\* lines 62-63
Step5Exploratory ==
    \/ run("step5a", desc.tax, "step5b")
    \/ run("step5b", desc.vs_rest, "step6")

\* lines 66-69: run_placebo_plots.py runs plot_placebo_robustness.py, which
\* reads config's get_output_dir(), and plot_placebo_spaghetti.py, which reads
\* its own DATA_DIR
Step6Placebo ==
    \/ /\ PlaceboResultsExist
       /\ subprocess_start("step6", desc.placebo,
                           {get_output_dir("config", PROJECT_DIR), spaghetti_DATA_DIR})
    \/ subprocess_exit("step6", desc.placebo, "step7")

\* lines 70-71
Step6Skip ==
    /\ ra_pc = "step6"
    /\ ~running
    /\ ~PlaceboResultsExist
    /\ ra_out' = Append(ra_out, <<"[Skipping placebo plots - run placebo tests first]">>)
    /\ ra_pc' = "step7"
    /\ UNCHANGED <<quick, PROJECT_DIR, outdir, fs, running, started, finished,
                   placebo_reads, notPipeline>>

\* line 74
Step7Macros == run("step7", desc.macros, "print")

\* lines 76-82
PrintComplete ==
    /\ ra_pc = "print"
    /\ ra_out' = Append(ra_out, <<"PIPELINE COMPLETE">>)
    /\ ra_pc' = "complete"
    /\ UNCHANGED <<quick, PROJECT_DIR, outdir, fs, running, started, finished,
                   placebo_reads, notPipeline>>

\* the Stata placebo job (line 82) writes a result file while main runs
PlaceboTestsWrite ==
    /\ ra_pc \notin {"idle", "start", "complete", "exit1"}
    /\ \E d \in OutputDirs(PROJECT_DIR) : \E i \in DOMAIN placebo_files :
          /\ <<d, placebo_files[i]>> \notin fs
          /\ fs' = fs \cup {<<d, placebo_files[i]>>}
    /\ UNCHANGED <<ra_pc, quick, PROJECT_DIR, outdir, running, started, finished,
                   ra_out, placebo_reads, notPipeline>>

(***************************************************************************)
(* chicago_did.py and archive/chicago_did_v1.py: the week-zip3 panel.      *)
(* A date is the number of days since 1970-01-01.                          *)
(***************************************************************************)
DateSpan == 7

MaxDidTrans == 2

\* pd.Timestamp of a 'YYYY-MM-DD' string: days since 1970-01-01
DaysFromCivil(y, m, d) ==
    LET yy == IF m <= 2 THEN y - 1 ELSE y
        era == yy \div 400
        yoe == yy - era * 400
        mp == IF m > 2 THEN m - 3 ELSE m + 9
        doy == (153 * mp + 2) \div 5 + d - 1
        doe == yoe * 365 + yoe \div 4 - yoe \div 100 + doy
    IN  era * 146097 + doe - 719468

START_DATE == DaysFromCivil(2023, 3, 1)

TREATMENT_DATE == DaysFromCivil(2023, 10, 1)

END_DATE(script) ==
    IF script = "chicago_did" THEN DaysFromCivil(2024, 12, 1)
    ELSE DaysFromCivil(2025, 1, 1)

\* dt.to_period('W'): weeks run Monday to Sunday; 1970-01-01 was a Thursday.
\* The period is named by its first day.
to_period_W(date) == date - ((date + 3) % 7)

\* dt.to_period('M'): <<year, month>> of the date
to_period_M(date) ==
    CHOOSE ym \in (2023..2025) \X (1..12) :
        /\ DaysFromCivil(ym[1], ym[2], 1) <= date
        /\ date < (IF ym[2] = 12 THEN DaysFromCivil(ym[1] + 1, 1, 1)
                   ELSE DaysFromCivil(ym[1], ym[2] + 1, 1))

\* df['week'].dt.to_timestamp(): the start of the period
to_timestamp(week) == week

DidScripts == {"chicago_did", "chicago_did_v1"}

CONTROL_ZIP == <<"6", "0", "0">>

DidDates == (TREATMENT_DATE - DateSpan)..(TREATMENT_DATE + DateSpan)

DidRows == [zip3 : {TREATED_ZIP, CONTROL_ZIP}, trans_date : DidDates]

\* the sample-period filter: chicago_did.py line 184, chicago_did_v1.py line 62
InSample(script, date) ==
    IF script = "chicago_did" THEN date >= START_DATE /\ date < END_DATE(script)
    ELSE date < END_DATE(script)

\* chicago_did.py line 184: runs before the period columns are added
SampleFilter ==
    /\ dd_pc = "sample"
    /\ dd_trans' = SelectSeq(dd_trans,
                             LAMBDA r : InSample(dd_script, r.trans_date))
    /\ dd_pc' = IF dd_script = "chicago_did" THEN "periods" ELSE "panel"
    /\ UNCHANGED <<dd_script, df, notDid>>

\* trans['week'] = ...to_period('W'); trans['month'] = ...to_period('M')
AssignPeriods ==
    /\ dd_pc = "periods"
    /\ dd_trans' = [i \in DOMAIN dd_trans |->
                      [zip3 |-> dd_trans[i].zip3,
                       trans_date |-> dd_trans[i].trans_date,
                       week |-> to_period_W(dd_trans[i].trans_date),
                       month |-> to_period_M(dd_trans[i].trans_date)]]
    /\ dd_pc' = IF dd_script = "chicago_did" THEN "panel" ELSE "sample"
    /\ UNCHANGED <<dd_script, df, notDid>>

\* df['post'] = (df['week_dt'] >= TREATMENT_DATE).astype(int)
post(week_dt) == IF week_dt >= TREATMENT_DATE THEN 1 ELSE 0

\* groupby(['zip3', 'week', 'month']), week_dt, treated, post, treated_post;
\* dates is the set of trans_date values aggregated into the observation
WeekZip3Panel ==
    /\ dd_pc = "panel"
    /\ df' = {[zip3 |-> k[1], week |-> k[2], month |-> k[3],
               week_dt |-> to_timestamp(k[2]),
               n_transactions |->
                   Cardinality({i \in DOMAIN dd_trans :
                       <<dd_trans[i].zip3, dd_trans[i].week, dd_trans[i].month>> = k}),
               dates |-> {dd_trans[i].trans_date : i \in
                   {j \in DOMAIN dd_trans :
                       <<dd_trans[j].zip3, dd_trans[j].week, dd_trans[j].month>> = k}},
               treated |-> IF k[1] = TREATED_ZIP THEN 1 ELSE 0,
               post |-> post(to_timestamp(k[2])),
               treated_post |-> (IF k[1] = TREATED_ZIP THEN 1 ELSE 0)
                                   * post(to_timestamp(k[2]))] :
             k \in {<<dd_trans[i].zip3, dd_trans[i].week, dd_trans[i].month>> :
                       i \in DOMAIN dd_trans}}
    /\ dd_pc' = "done"
    /\ UNCHANGED <<dd_script, dd_trans, notDid>>

(***************************************************************************)
(* Initial states.  Each script is run on its own; the variables of the    *)
(* other scripts are idle.                                                 *)
(***************************************************************************)
IdlePanel ==
    /\ pc = "idle" /\ caller = "none"
    /\ gw_start = 0 /\ gw_end = 0 /\ gw_days = 1
    /\ windows = <<>> /\ current = 0
    /\ card_info = EmptyMap /\ cardid_to_linkid = EmptyMap
    /\ all_cardlinkids = {} /\ activity = {}
    /\ panel_members = {} /\ win_i = 0 /\ saved_panel = {}

IdleZip == zip_pc = "idle" /\ tv = <<>> /\ zip_result = <<>>

IdleSynth ==
    /\ sc_pc = "idle" /\ sc_script = "none" /\ valid_donors = 0
    /\ weights = <<>> /\ top_donors = {} /\ top_weights = <<>>
    /\ synth_weights = <<>>

IdlePlacebo ==
    /\ mp_pc = "idle" /\ results = <<>> /\ chi_pre = 0 /\ chi_ratio = 0
    /\ mult_i = 0 /\ printed = <<>>

IdleDonor ==
    /\ dn_pc = "idle" /\ dn_script = "none" /\ counts = <<>>
    /\ chicago_size = 0 /\ donor_zips = {}

IdleLoad ==
    /\ ld_pc = "idle" /\ amount_filter = "None" /\ use_top_merchants = "None"
    /\ use_panel = "None" /\ top_n = 0 /\ trans_files = <<>> /\ panel_file = {}
    /\ ld_card_info = {} /\ PANEL_CARDIDS_CACHE = {} /\ TOP_MERCHANTS_CACHE = {}
    /\ trans = <<>>

IdlePipeline ==
    /\ ra_pc = "idle" /\ quick = FALSE /\ PROJECT_DIR = "" /\ outdir = <<>>
    /\ fs = {} /\ running = FALSE /\ started = <<>> /\ finished = <<>>
    /\ ra_out = <<>> /\ placebo_reads = {}

IdleDid == dd_pc = "idle" /\ dd_script = "none" /\ dd_trans = <<>> /\ df = {}

\* generate_windows called on its own with arbitrary arguments, and with the
\* arguments panelize.main passes
InitGenerateWindows ==
    /\ pc = "generate_windows" /\ caller = "none"
    /\ \/ /\ gw_start \in 0..MaxStart
          /\ gw_end \in 0..MaxDay
          /\ gw_days \in 1..MaxWindowDays
       \/ /\ gw_start = STUDY_START
          /\ gw_end = STUDY_END
          /\ gw_days = WINDOW_DAYS
    /\ windows = <<>> /\ current = gw_start
    /\ card_info = EmptyMap /\ cardid_to_linkid = EmptyMap
    /\ all_cardlinkids = {} /\ activity = {}
    /\ panel_members = {} /\ win_i = 0 /\ saved_panel = {}

ActivityDates == (STUDY_START - 1)..(ScaledStudyEnd + 1)

ActivityRows == [file : Files, cardid : CardIds, trans_date : ActivityDates]

\* panelize.main on a scaled study period
InitPanelizeMain ==
    /\ pc = "load_card_info" /\ caller = "main"
    /\ gw_start = STUDY_START
    /\ gw_end = ScaledStudyEnd
    /\ gw_days = ScaledWindowDays
    /\ windows = <<>> /\ current = gw_start
    /\ card_info \in [CardIds -> CardRows]
    /\ \E n \in 0..MaxActivity : \E rows \in [1..n -> ActivityRows] :
          activity = Range(rows)
    /\ cardid_to_linkid = EmptyMap /\ all_cardlinkids = {}
    /\ panel_members = {} /\ win_i = 0 /\ saved_panel = {}

MaxRows == 2

Zips == {606, 77}

\* day numbers from the day before the first month to the day after the last
AddressDates == (-1)..(MonthEndOf(Len(MonthLengths)) + 1)

AddressRows ==
    {r \in [zip : Zips, valid_begin : AddressDates, valid_end : AddressDates] :
        r.valid_begin <= r.valid_end}

InitZip ==
    /\ zip_pc = "split"
    /\ \E n \in 1..MaxRows : tv \in [1..n -> AddressRows]
    /\ zip_result = <<>>
    /\ IdlePanel /\ IdleSynth /\ IdlePlacebo /\ IdleDonor
    /\ IdleLoad /\ IdlePipeline /\ IdleDid

NextZip == SplitByRowCount \/ ProcessSingleRow \/ ProcessMultiRow

SpecZip == InitZip /\ [][NextZip]_vars

SynthScripts == {"chicago_synth_control", "chicago_did"}

InitSynth ==
    /\ sc_pc = "fit"
    /\ sc_script \in SynthScripts
    /\ valid_donors \in 1..MaxDonors
    /\ weights = <<>> /\ top_donors = {} /\ top_weights = <<>>
    /\ synth_weights = <<>>
    /\ IdlePanel /\ IdleZip /\ IdlePlacebo /\ IdleDonor
    /\ IdleLoad /\ IdlePipeline /\ IdleDid

NextSynth == Minimize \/ TopDonors \/ ComputeSynthetic

SpecSynth == InitSynth /\ [][NextSynth]_vars

PlaceboUnits == [pre_rmspe : PreValues, ratio : RatioValues]

InitPlacebo ==
    /\ mp_pc = "start"
    /\ \E n \in 0..MaxUnits : results \in [1..n -> PlaceboUnits]
    /\ chi_pre \in ChicagoPreValues
    /\ chi_ratio \in RatioValues
    /\ mult_i = 1 /\ printed = <<>>
    /\ IdlePanel /\ IdleZip /\ IdleSynth /\ IdleDonor
    /\ IdleLoad /\ IdlePipeline /\ IdleDid

NextPlacebo == NoCompletedUnits \/ ChicagoStats \/ PValueRow \/ PrintRanking

SpecPlacebo == InitPlacebo /\ [][NextPlacebo]_vars

\* counts: every zip3 with at least one early-window transaction has a row
InitDonor ==
    /\ dn_pc = "chicago_size"
    /\ dn_script \in Scripts
    /\ \E present \in SUBSET OtherZip3s :
          \E others \in [present -> SizeValues] :
             \/ counts = others
             \/ \E c \in ChicagoSizes :
                   counts = [z \in present \cup {TREATED_ZIP} |->
                                IF z = TREATED_ZIP THEN c ELSE others[z]]
    /\ chicago_size = 0 /\ donor_zips = {}
    /\ IdlePanel /\ IdleZip /\ IdleSynth /\ IdlePlacebo
    /\ IdleLoad /\ IdlePipeline /\ IdleDid

NextDonor == ChicagoMissing \/ ChicagoSize \/ SelectDonors

SpecDonor == InitDonor /\ [][NextDonor]_vars

InitWindows ==
    /\ InitGenerateWindows
    /\ IdleZip /\ IdleSynth /\ IdlePlacebo /\ IdleDonor
    /\ IdleLoad /\ IdlePipeline /\ IdleDid

InitPanel ==
    /\ (InitPanelizeMain \/ InitGenerateWindows)
    /\ IdleZip /\ IdleSynth /\ IdlePlacebo /\ IdleDonor
    /\ IdleLoad /\ IdlePipeline /\ IdleDid

NextWindows == generate_windows

NextPanel ==
    LoadCardInfo \/ generate_windows \/ StartScan \/ ProcessWindow \/ SavePanel

\* generate_windows is a sequential loop: an enabled iteration is executed
SpecWindows == InitWindows /\ [][NextWindows]_vars /\ WF_vars(NextWindows)

SpecPanel == InitPanel /\ [][NextPanel]_vars

\* a fresh process calls load_transactions once: both caches are None
InitLoad ==
    /\ ld_pc = "call"
    /\ amount_filter \in AmountFilterArgs
    /\ use_top_merchants \in {"None", "True"}
    /\ use_panel \in {"None", "True", "False"}
    /\ top_n \in (IF use_top_merchants = "True" THEN {ScaledTopN, TOP_N_MERCHANTS}
                 ELSE {TOP_N_MERCHANTS})
    /\ \E n \in 0..MaxTrans : trans_files \in [1..n -> TransRows]
    /\ panel_file \in {{}, {{}}, {{"L1"}}, {LinkIds}}
    /\ \E kind \in [CardIds -> CardKinds] :
          ld_card_info = {[cardid |-> c, cardlinkid |-> kind[c].cardlinkid,
                           source_group |-> kind[c].source_group,
                           cardtype |-> kind[c].cardtype] : c \in CardIds}
    /\ PANEL_CARDIDS_CACHE = {} /\ TOP_MERCHANTS_CACHE = {}
    /\ trans = <<>>
    /\ IdlePanel /\ IdleZip /\ IdleSynth /\ IdlePlacebo /\ IdleDonor
    /\ IdlePipeline /\ IdleDid

NextLoad ==
    \/ ArgDefaults \/ ReadTransactions \/ PanelFileMissing \/ PanelFilter
    \/ NoPanelFilter \/ TopMerchantsFilter \/ NoTopMerchantsFilter \/ AmountFilter

SpecLoad == InitLoad /\ [][NextLoad]_vars

InitPipeline ==
    /\ ra_pc = "start"
    /\ quick \in BOOLEAN
    /\ PROJECT_DIR \in ProjectDirs
    /\ outdir = <<>>
    /\ fs \in SUBSET {<<d, placebo_files[i]>> :
                         d \in OutputDirs(PROJECT_DIR), i \in DOMAIN placebo_files}
    /\ running = FALSE /\ started = <<>> /\ finished = <<>>
    /\ ra_out = <<>> /\ placebo_reads = {}
    /\ IdlePanel /\ IdleZip /\ IdleSynth /\ IdlePlacebo /\ IdleDonor
    /\ IdleLoad /\ IdleDid

NextPipeline ==
    \/ DeleteStale \/ Step1Export \/ Step2Stata \/ Step2Skip \/ Step3Extract
    \/ Step4Figures \/ Step5Exploratory \/ Step6Placebo \/ Step6Skip
    \/ Step7Macros \/ PrintComplete \/ PlaceboTestsWrite

SpecPipeline == InitPipeline /\ [][NextPipeline]_vars

InitDid ==
    /\ dd_script \in DidScripts
    /\ dd_pc = IF dd_script = "chicago_did" THEN "sample" ELSE "periods"
    /\ \E n \in 1..MaxDidTrans : dd_trans \in [1..n -> DidRows]
    /\ df = {}
    /\ IdlePanel /\ IdleZip /\ IdleSynth /\ IdlePlacebo /\ IdleDonor
    /\ IdleLoad /\ IdlePipeline

NextDid == SampleFilter \/ AssignPeriods \/ WeekZip3Panel

SpecDid == InitDid /\ [][NextDid]_vars

(***************************************************************************)
(* All scripts together: any one of them is started.                       *)
(***************************************************************************)
Init ==
    \/ InitPanel \/ InitZip \/ InitSynth \/ InitPlacebo \/ InitDonor
    \/ InitLoad \/ InitPipeline \/ InitDid

Next ==
    \/ NextPanel \/ NextZip \/ NextSynth \/ NextPlacebo \/ NextDonor
    \/ NextLoad \/ NextPipeline \/ NextDid

Spec == Init /\ [][Next]_vars

(***************************************************************************)
(* Properties of panelize.py                                               *)
(***************************************************************************)
Returned == pc = "returned"

WinLen(w) == w[2] - w[1]

KeptCards == {c \in DOMAIN card_info :
                 ~(card_info[c].source_group = 1 /\ card_info[c].cardtype = "DEBIT")}

\* cardlinkid l has an activity record dated within window w on a card of set cs
ActiveIn(l, w, cs) ==
    \E r \in activity :
        /\ w[1] <= r.trans_date /\ r.trans_date <= w[2]
        /\ r.cardid \in cs
        /\ card_info[r.cardid].cardlinkid = l

\* C1: when panelize.main is done, the saved panel is exactly the set of
\* cardlinkids that have, in every window returned by generate_windows, an
\* activity record with win_start <= trans_date <= win_end on a card kept by
\* load_card_info; a cardlinkid without such a record in some window is not
\* in the panel.
C1_PanelIsActiveInEveryWindow ==
    (pc = "done") =>
        /\ saved_panel =
              {l \in LinkIds : \A k \in 1..Len(windows) :
                                  ActiveIn(l, windows[k], load_card_info(card_info))}
        /\ \A l \in LinkIds :
              (\E k \in 1..Len(windows) :
                  ~ActiveIn(l, windows[k], load_card_info(card_info)))
              => l \notin saved_panel

C1_Witness ==
    /\ pc = "done"
    /\ Len(windows) >= 2
    /\ saved_panel # {}
    /\ \E l \in all_cardlinkids : l \notin saved_panel /\ ActiveIn(l, windows[1], CardIds)

\* C7: for start < end the windows returned by generate_windows are
\* non-overlapping: no date belongs to two windows under the membership test
\* win_start <= trans_date <= win_end.
C7_WindowsDoNotOverlap ==
    (Returned /\ gw_start < gw_end) =>
        \A i, j \in 1..Len(windows) :
            i < j => ~\E d \in gw_start..gw_end :
                        /\ windows[i][1] <= d /\ d <= windows[i][2]
                        /\ windows[j][1] <= d /\ d <= windows[j][2]

\* C8: for start < end and window_days >= 1 generate_windows terminates and
\* returns a non-empty list of windows that covers the study period without
\* gaps: the first window starts at start, the last ends at end, every other
\* window starts at the end of the window before it.
C8_TerminatesAndCovers ==
    /\ (gw_start < gw_end) ~> Returned
    /\ []((Returned /\ gw_start < gw_end) =>
            /\ Len(windows) >= 1
            /\ windows[1][1] = gw_start
            /\ windows[Len(windows)][2] = gw_end
            /\ \A k \in 2..Len(windows) : windows[k][1] = windows[k - 1][2])

C8_Witness == Returned /\ gw_start < gw_end /\ Len(windows) >= 3

\* C9: whenever end - start is at least window_days, every window but the
\* last is exactly window_days long, the last is at least window_days and
\* less than 2 * window_days long, and no window is shorter than window_days.
C9_ShortFinalWindowMerged ==
    (Returned /\ gw_end - gw_start >= gw_days) =>
        /\ Len(windows) >= 1
        /\ \A k \in 1..(Len(windows) - 1) : WinLen(windows[k]) = gw_days
        /\ WinLen(windows[Len(windows)]) >= gw_days
        /\ WinLen(windows[Len(windows)]) < 2 * gw_days
        /\ \A k \in 1..Len(windows) : WinLen(windows[k]) >= gw_days

C9_Witness ==
    /\ Returned
    /\ Len(windows) >= 2
    /\ WinLen(windows[Len(windows)]) > gw_days

IsUsa1Debit(c) == card_info[c].source_group = 1 /\ card_info[c].cardtype = "DEBIT"

\* C10: activity on a USA1 debit card never counts towards panel membership:
\* a cardlinkid whose only activity in some window is on USA1 debit cards is
\* not in the saved panel, and a cardlinkid all of whose cards are USA1 debit
\* is never in the panel.
C10_Usa1DebitNeverCounts ==
    (pc = "done") =>
        \A l \in LinkIds :
            /\ (\E k \in 1..Len(windows) :
                   \A r \in activity :
                       (/\ windows[k][1] <= r.trans_date
                        /\ r.trans_date <= windows[k][2]
                        /\ card_info[r.cardid].cardlinkid = l)
                       => IsUsa1Debit(r.cardid))
               => l \notin saved_panel
            /\ (\A c \in CardIds : card_info[c].cardlinkid = l => IsUsa1Debit(c))
               => l \notin saved_panel

\* a cardlinkid active in every window, in one of them only on a USA1 debit
\* card while it also owns a card that is kept
C10_Witness ==
    /\ pc = "done"
    /\ \E l \in all_cardlinkids :
          /\ l \notin saved_panel
          /\ \A k \in 1..Len(windows) : ActiveIn(l, windows[k], CardIds)
          /\ \E k \in 1..Len(windows) : ~ActiveIn(l, windows[k], KeptCards)

(***************************************************************************)
(* Properties of compute_monthly_zip3.py                                   *)
(***************************************************************************)
\* the address row overlaps month m
Overlaps(row, m) ==
    Max2(row.valid_begin, MonthStart(m)) <= Min2(row.valid_end, MonthEndOf(m))

\* inclusive overlap of a row with month m, in days
OverlapDays(row, m) ==
    (Min2(row.valid_end, MonthEndOf(m)) - Max2(row.valid_begin, MonthStart(m))) + 1

RECURSIVE TotalOverlap(_, _, _)
TotalOverlap(rows, m, z) ==
    IF rows = <<>> THEN 0
    ELSE (IF astype_str(rows[1].zip) = z /\ Overlaps(rows[1], m)
          THEN OverlapDays(rows[1], m) ELSE 0)
         + TotalOverlap(Tail(rows), m, z)

RowsOfMonth(res, m) == {k \in 1..Len(res) : res[k].year_month = m}

C6_FastPathEqualsModal ==
    (zip_pc = "done_single") =>
        Range(zip_result) = Range(process_multi_row_cardids(tv))

(***************************************************************************)
(* Properties of the synthetic-control weights                             *)
(***************************************************************************)
RECURSIVE SumOver(_, _)
SumOver(f, S) ==
    IF S = {} THEN 0
    ELSE LET x == CHOOSE y \in S : TRUE IN f[x] + SumOver(f, S \ {x})

\* C3: the weights multiplied with the donor series to build the full-period
\* synthetic control series form a convex combination: every weight is
\* non-negative and the weights sum to 1.
C3_SyntheticWeightsConvex ==
    (sc_pc = "done") =>
        /\ \A d \in DOMAIN synth_weights : synth_weights[d] >= 0
        /\ SumOver(synth_weights, DOMAIN synth_weights) = WeightUnits

(***************************************************************************)
(* Properties of monitor_placebo.main                                      *)
(***************************************************************************)
BelowThreshold(mult) ==
    {i \in 1..Len(results) : results[i].pre_rmspe < mult * chi_pre}

\* C4: for each pre-RMSPE threshold multiple the p-value is
\* (1 + #{units below the threshold with ratio >= Chicago's ratio})
\* / (1 + #{units below the threshold}), and 0 < p <= 1.
C4_PlaceboPValue ==
    \A k \in 1..Len(printed) :
        (printed[k].mult # NoMult) =>
            LET m == printed[k].mult
                num == printed[k].pval[1]
                den == printed[k].pval[2]
            IN  /\ num = 1 + Cardinality({i \in BelowThreshold(m) :
                                             results[i].ratio >= chi_ratio})
                /\ den = 1 + Cardinality(BelowThreshold(m))
                /\ 0 < num /\ num <= den
                /\ 0 <= printed[k].text /\ printed[k].text <= 1000

\* the table is complete, the thresholds select different sets of units and
\* some selected unit is less extreme than Chicago
C4_Witness ==
    /\ mp_pc = "done"
    /\ Len(printed) = Len(Mults)
    /\ printed[1].pval[2] < printed[3].pval[2]
    /\ printed[3].pval[1] < printed[3].pval[2]
    /\ printed[3].pval[1] > 1

(***************************************************************************)
(* Properties of the donor selection                                       *)
(***************************************************************************)
\* chicago_size * (1 - SIZE_WINDOW) <= s <= chicago_size * (1 + SIZE_WINDOW),
\* SIZE_WINDOW = 0.5 in chicago_synth_control and 0.1 in the other scripts
WithinSizeWindow(s) ==
    IF dn_script = "chicago_synth_control"
    THEN 2 * s >= chicago_size /\ 2 * s <= 3 * chicago_size
    ELSE 10 * s >= 9 * chicago_size /\ 10 * s <= 11 * chicago_size

ThreeDigits(z) ==
    /\ Len(z) = 3
    /\ \A i \in 1..3 : z[i] \in {"0", "1", "2", "3", "4", "5", "6", "7", "8", "9"}

\* C5: the donor list is exactly the set of ZIP3s that differ from '606',
\* consist of exactly three digits and have an early-window size metric within
\* the size window around Chicago's; the treated unit is never a donor.
C5_DonorsAreSizeMatchedZip3s ==
    (dn_pc = "done") =>
        /\ donor_zips = {z \in DOMAIN counts :
                            /\ z # <<"6", "0", "6">>
                            /\ ThreeDigits(z)
                            /\ WithinSizeWindow(counts[z])}
        /\ <<"6", "0", "6">> \notin donor_zips

C5_Witness ==
    /\ dn_pc = "done"
    /\ donor_zips # {}
    /\ \E z \in DOMAIN counts : ThreeDigits(z) /\ ~WithinSizeWindow(counts[z])
    /\ \E z \in DOMAIN counts : ~ThreeDigits(z) /\ WithinSizeWindow(counts[z])

(***************************************************************************)
(* load_transactions: the panel step                                       *)
(***************************************************************************)
\* the card is not USA1 debit and its cardlinkid is in panel_cardlinkids.parquet
PanelCard(cardid) ==
    /\ panel_file # {}
    /\ \E r \in ld_card_info :
          /\ r.cardid = cardid
          /\ ~(r.source_group = 1 /\ r.cardtype = "DEBIT")
          /\ \E content \in panel_file : r.cardlinkid \in content

\* the rows that reach the panel step
ServiceRows == SelectSeq(trans_files, LAMBDA r : lower(r.service) \in services)

\* C11: when load_transactions runs with use_panel true, every transaction it
\* returns has the cardid of a card that is not USA1 debit and whose
\* cardlinkid is listed in panel_cardlinkids.parquet; with use_panel false
\* the panel step removes no transaction.
C11_PanelFilterKeepsPanelCards ==
    /\ (ld_pc = "returned" /\ use_panel = "True") =>
          \A i \in DOMAIN trans : PanelCard(trans[i].cardid)
    /\ (ld_pc = "top_merchants" /\ use_panel = "False") => trans = ServiceRows

\* a transaction is returned under the panel filter although a USA1 debit card
\* shares a panel cardlinkid
C11_Witness ==
    /\ ld_pc = "returned" /\ use_panel = "True"
    /\ trans # <<>>
    /\ \E r \in ld_card_info :
          /\ r.source_group = 1 /\ r.cardtype = "DEBIT"
          /\ \E content \in panel_file : r.cardlinkid \in content

(***************************************************************************)
(* load_transactions: the amount filter                                    *)
(***************************************************************************)
\* the row passed every filter before the amount filter
PassedEarlierFilters(r) ==
    /\ lower(r.service) \in services
    /\ use_panel = "True" => \E cached \in PANEL_CARDIDS_CACHE : r.cardid \in cached
    /\ use_top_merchants = "True" => \E top \in TOP_MERCHANTS_CACHE : r.merchid \in top

\* C15: load_transactions(amount_filter='subscriptions') returns only
\* transactions with trans_amount >= 20, amount_filter='api' returns only
\* transactions with trans_amount < 20, and amount_filter='all' applies no
\* amount filter.
C15_AmountFilterByName ==
    ld_pc = "returned" =>
        /\ amount_filter = "subscriptions" =>
              \A i \in DOMAIN trans : trans[i].trans_amount >= 20
        /\ amount_filter = "api" =>
              \A i \in DOMAIN trans : trans[i].trans_amount < 20
        /\ amount_filter = "all" =>
              \A i \in DOMAIN trans_files :
                  PassedEarlierFilters(trans_files[i]) =>
                      trans_files[i] \in Range(trans)

(***************************************************************************)
(* settings seen by the scripts                                            *)
(***************************************************************************)
\* C12: the outcome variable and the directory returned by get_output_dir()
\* are the same whether imported from config.py or from load_chatgpt_data.py,
\* and equal the directory plot_placebo_spaghetti.py reads from, so the
\* directory run_analysis cleans and checks for placebo results is the
\* directory the placebo plots read.
C12_ConsistentSettings ==
    ra_pc \notin {"idle", "start"} =>
        /\ Settings("config").OUTCOME_VAR = Settings("load_chatgpt_data").OUTCOME_VAR
        /\ outdir = get_output_dir("config", PROJECT_DIR)
        /\ outdir = get_output_dir("load_chatgpt_data", PROJECT_DIR)
        /\ outdir = spaghetti_DATA_DIR
        /\ \A d \in placebo_reads : d = outdir

(***************************************************************************)
(* run_analysis.main: order of the steps                                   *)
(***************************************************************************)
FullPipeline ==
    <<desc.export, desc.stata, desc.extract, desc.plot_sc,
      desc.spaghetti, desc.tax, desc.vs_rest, desc.placebo,
      desc.macros>>

Without(order, step) == SelectSeq(order, LAMBDA d : d # step)

IsPrefix(a, b) == Len(a) <= Len(b) /\ \A i \in DOMAIN a : a[i] = b[i]

AllExitedZero == \A i \in DOMAIN finished : finished[i][2] = 0

\* every command that was started has returned, except the one running
OneAtATime ==
    /\ Len(started) = Len(finished) + (IF running THEN 1 ELSE 0)
    /\ \A i \in DOMAIN finished : finished[i][1] = started[i]

Printed(line) == \E i \in DOMAIN ra_out : ra_out[i] = <<line>>

\* the order of the full pipeline, with the placebo plots when they apply
FollowsOrder(order) ==
    \/ IsPrefix(started, order)
    \/ IsPrefix(started, Without(order, desc.placebo))

\* the started commands are all of the order, with or without the placebo plots
CompletesOrder(order) ==
    \/ started = order
    \/ started = Without(order, desc.placebo)

\* C13: in a run of the full pipeline in which every step command exits with
\* status 0, the steps are started one at a time in the order export panel
\* data, Stata synthetic control, extract donor weights, synthetic-control
\* figures, exploratory plots, placebo plots (when applicable), LaTeX macro
\* export; the macro export is the last step and 'PIPELINE COMPLETE' is
\* printed only after it has succeeded.
C13_StepsInOrder ==
    ra_pc # "idle" =>
        /\ OneAtATime
        /\ (~quick /\ AllExitedZero) => FollowsOrder(FullPipeline)
        /\ desc.placebo \in Range(started) =>
              <<outdir, placebo_files[1]>> \in fs
        /\ Printed("PIPELINE COMPLETE") =>
              /\ ~running
              /\ finished # <<>>
              /\ finished[Len(finished)] = <<desc.macros, 0>>
              /\ ~quick => CompletesOrder(FullPipeline)

\* the full pipeline has completed, placebo plots included
C13_Witness ==
    /\ ~quick
    /\ Printed("PIPELINE COMPLETE")
    /\ started = FullPipeline

\* C14: when run_analysis is started with --quick the Stata synthetic-control
\* command is never executed, and every other step runs in the order of the
\* full pipeline.
C14_QuickSkipsOnlyStata ==
    (ra_pc # "idle" /\ quick) =>
        /\ desc.stata \notin Range(started)
        /\ AllExitedZero => FollowsOrder(Without(FullPipeline, desc.stata))
        /\ Printed("PIPELINE COMPLETE") =>
              CompletesOrder(Without(FullPipeline, desc.stata))

\* a --quick run has completed
C14_Witness ==
    /\ quick
    /\ Printed("PIPELINE COMPLETE")
    /\ Printed("[--quick] Skipping Stata")
    /\ Len(started) >= 7

(***************************************************************************)
(* chicago_did.main: the post indicator                                    *)
(***************************************************************************)
\* C16: in the week-by-ZIP3 panel an observation has post = 1 if and only if
\* the transactions aggregated into it are dated on or after TREATMENT_DATE;
\* no observation made only of transactions on or after that date has
\* post = 0.
C16_PostIffOnOrAfterTreatment ==
    dd_pc = "done" =>
        \A obs \in df :
            (obs.post = 1) <=> (\A d \in obs.dates : d >= TREATMENT_DATE)

====
